---- MODULE Spec2Model ----
(***************************************************************************)
(* WhisperWriter: the recording / composition state machine of             *)
(* src/src/app/page.tsx (WhisperWriterPage, latest revision, lines         *)
(* 389-761).  One action per event handler or asynchronous callback.       *)
(*                                                                         *)
(* Scheduling.  The page runs on one event loop.  A handler runs to        *)
(* completion; what it awaits or registers (getUserMedia, the recorder's   *)
(* dataavailable/stop task, FileReader.onloadend, the two server calls,    *)
(* setTimeout) resumes later as a separate action.  The recorder tasks     *)
(* all come from one task source and are therefore kept in one FIFO        *)
(* queue (taskQueue); the other callbacks interleave freely.               *)
(***************************************************************************)
EXTENDS Integers, Sequences, FiniteSets, TLC

(***************************************************************************)
(* Bounds of the model.                                                    *)
(***************************************************************************)
MaxRecorders == 2   \* recordings attempted in every specification but EditorSpec
MaxDictations == 1  \* recordings attempted in EditorSpec
MaxData == 1        \* audio units one recorder buffers
MaxFormat == 1      \* formatting requests in flight at once
MaxCalls == 2       \* onChange calls of StyleSelect the parent has not applied yet

(***************************************************************************)
(* Value domains.                                                          *)
(***************************************************************************)
DEFAULT_LANGUAGE == "en-US"
DEFAULT_FORMATTING_STYLE == "Simple Cleanup"
LANGUAGES == {"en-US", "fa-IR"}
FORMATTING_STYLES == {"Simple Cleanup", "Professional Email"}

\* The options prop of the two components, the values a parent may hold
\* ("" is a missing value), the keys pressed on a card, the ids a ring
\* picker may report.
StyleOptions == <<"Simple Cleanup", "Professional Email">>
StyleValues == {"Simple Cleanup", "Professional Email", "Other", ""}
CardKeys == {"Enter", " ", "Tab"}
RingOptionLists == {StyleOptions, <<"Simple Cleanup">>}
IconIds == {"Simple Cleanup", "Professional Email", "Other"}

RecordingStates == {"idle", "recording", "paused", "stopped"}
ProcessingStages == {"idle", "transcribing", "formatting", "error", "success"}

\* Characters of a text: a letter, a space, a newline.
Whitespace == {" ", "\n"}

\* What the user can type into the transcription box.
EditTexts == {<< >>, <<"a">>, <<"a", " ">>, <<"a", "\n">>, <<" ", "a">>, <<"a", "a", "a">>}
\* What the transcription service can answer.
TranscriptionResults == {<<"x">>, <<"y", " ">>, << >>}
\* What it answers in DictationSpec, where two answers must be told apart.
DictationResults == {<<"x">>, <<"z">>, << >>}
\* What the formatting service can answer.
FormatResults == {<<"f">>}
\* What it answers in FormatSpec, where the answers must be told apart.
EnhancedResults == {<<"f">>, <<"g">>, << >>}
\* The texts and answers of the specification of the recording controller, where
\* only the presence of text matters.
ShortTexts == {<< >>, <<"a">>}
ShortResults == {<<"x">>}

VARIABLES
    recordingState,      \* useState<RecordingState>
    processingStage,     \* useState<ProcessingStage>
    selectedLanguage,    \* useState<string>
    selectedStyle,       \* useState<string>
    transcription,       \* useState<string>: the transcription buffer
    formattedText,       \* useState<string>: the enhanced buffer
    mediaRecorderRef,    \* 0 = null, else the index of a recorder
    audioChunksRef,      \* Seq of [rec, size]: the shared chunk list
    isCancelledRef,      \* the cancellation flag
    cursorRef,           \* transcriptionCursorPositionRef.current
    recorders,           \* Seq of MediaRecorder objects created so far
    acquiring,           \* Seq of pending getUserMedia calls (closure values)
    taskQueue,           \* Seq of recorder indexes: queued dataavailable+stop tasks
    readers,             \* recorders whose FileReader has not yet loaded
    transcribing,        \* recorders whose transcribeAudio call is in flight
    formatting,          \* Seq of formatText calls in flight
    timers,              \* Seq of pending setTimeout(.., 0) callbacks (newCursorPos)
    styleSelect,         \* the StyleSelect component: props, state, refs, onChange calls
    formattingRing,      \* the FormattingRing component: props and its last onConfirm call
    hist,                \* history of the recordings, read by the properties only
    mergeLog             \* history of the merges, read by the properties only

vars == <<recordingState, processingStage, selectedLanguage, selectedStyle,
          transcription, formattedText, mediaRecorderRef, audioChunksRef,
          isCancelledRef, cursorRef, recorders, acquiring, taskQueue, readers,
          transcribing, formatting, timers, styleSelect, formattingRing,
          hist, mergeLog>>

\* The two components that stand beside the page.
components == <<styleSelect, formattingRing>>

ui == <<selectedLanguage, selectedStyle>>
buffers == <<transcription, formattedText>>
async == <<readers, transcribing, formatting, timers>>

\* The program's state: everything but the two histories.
prog == <<recordingState, processingStage, selectedLanguage, selectedStyle,
          transcription, formattedText, mediaRecorderRef, audioChunksRef,
          isCancelledRef, cursorRef, recorders, acquiring, taskQueue, readers,
          transcribing, formatting, timers>>

Min(a, b) == IF a < b THEN a ELSE b
Max(a, b) == IF a > b THEN a ELSE b

(***************************************************************************)
(* JavaScript string operations, as the engine computes them.              *)
(***************************************************************************)
\* String.prototype.substring(a, b): both ends clamped to [0, length], swapped
\* when a > b.
substring(s, a, b) ==
    LET ca == Max(0, Min(a, Len(s)))
        cb == Max(0, Min(b, Len(s)))
    IN  SubSeq(s, Min(ca, cb) + 1, Max(ca, cb))

\* s[i]: the character at 0-based index i, or undefined outside the string.
charAt(s, i) == IF i >= 0 /\ i < Len(s) THEN s[i + 1] ELSE "undefined"

\* (a slip: the number of chunks is taken for the size of the blob)
BlobSizeCountsChunks(chunks) == Len(chunks)

\* Blob.size of new Blob(chunks).
RECURSIVE BlobSize(_)
BlobSize(chunks) ==
    IF chunks = << >> THEN 0 ELSE Head(chunks).size + BlobSize(Tail(chunks))

(***************************************************************************)
(* Derived UI state (page.tsx 573-575).                                    *)
(***************************************************************************)
isLoading == processingStage \in {"transcribing", "formatting"}
isRecording == recordingState \in {"recording", "paused"}
showCancelAndStop == recordingState \in {"recording", "paused"}

Recs == 1..Len(recorders)

RemoveAt(s, i) == SubSeq(s, 1, i - 1) \o SubSeq(s, i + 1, Len(s))

\* history: no merge recorded
NoMerge == [rec |-> 0]
\* history: no step recorded
\* history: no step of StyleSelect, none of FormattingRing
NoSelectStep == [op |-> "init"]
NoRingStep == [op |-> "init"]
NoStep == [op |-> "init", from |-> "idle", stage |-> "idle", same |-> {},
           delta |-> 0, toast |-> "none"]

Init ==
    /\ recordingState = "idle"
    /\ processingStage = "idle"
    /\ selectedLanguage = DEFAULT_LANGUAGE
    /\ selectedStyle = DEFAULT_FORMATTING_STYLE
    /\ transcription = << >>
    /\ formattedText = << >>
    /\ mediaRecorderRef = 0
    /\ audioChunksRef = << >>
    /\ isCancelledRef = FALSE
    /\ cursorRef = [start |-> 0, end |-> 0]
    /\ recorders = << >>
    /\ acquiring = << >>
    /\ taskQueue = << >>
    /\ readers = {}
    /\ transcribing = {}
    /\ formatting = << >>
    /\ timers = << >>
    /\ hist = [cancelled |-> {}, stopPressed |-> {}, abandoned |-> {}, requests |-> << >>,
               merged |-> {}, staleRecs |-> {}, staleFormats |-> << >>,
               last |-> NoStep, sinceCancel |-> FALSE,
               dispatched |-> << >>, returned |-> << >>,
               acqLanguage |-> << >>, recLanguage |-> << >>,
               cursorRecorded |-> [start |-> 0, end |-> 0], cursorAtIssue |-> << >>,
               touched |-> {}, applied |-> NoMerge, resetWhile |-> {},
               select |-> NoSelectStep, ring |-> NoRingStep]
    /\ styleSelect = [mounted |-> FALSE, disabled |-> FALSE, value |-> "",
                      openId |-> "null", manualCollapsedFor |-> "null",
                      prevDisabled |-> FALSE, calls |-> << >>]
    /\ formattingRing = [mounted |-> FALSE, disabled |-> FALSE, options |-> << >>,
                         confirmed |-> << >>]
    /\ mergeLog = [nMerged |-> 0, since |-> "none", acq |-> << >>, started |-> << >>,
                   prevMerge |-> NoMerge, lastMerge |-> NoMerge]

(***************************************************************************)
(* The browser's MediaRecorder and MediaStream.                            *)
(***************************************************************************)
\* (a slip: the handlers read the language selected when the device is granted)
NewRecorderCurrentLanguage(c) ==
    [state |-> "recording", tracks |-> TRUE, data |-> 0, language |-> selectedLanguage]

\* new MediaRecorder(stream) followed by start(): a recorder gathering data from
\* live tracks.  language is the selectedLanguage its handlers closed over.
NewRecorder(c) ==
    [state |-> "recording", tracks |-> TRUE, data |-> 0, language |-> c.language]

\* MediaRecorder.stop(), and what the browser does by itself when every track
\* of the stream has ended: an active recorder becomes inactive and one task
\* that fires dataavailable and then stop is queued; an inactive one is left alone.
RecorderStop(recs, queue, r) ==
    IF recs[r].state = "inactive"
    THEN [recs |-> recs, queue |-> queue]
    ELSE [recs |-> [recs EXCEPT ![r].state = "inactive"], queue |-> Append(queue, r)]

\* stream.getTracks().forEach(track => track.stop())
StopTracks(recs, r) == [recs EXCEPT ![r].tracks = FALSE]

\* The recorder gathers one more unit of audio (only while recording, not paused).
Capture(r) ==
    /\ recorders[r].state = "recording"
    /\ recorders[r].tracks
    /\ recorders[r].data < MaxData
    /\ recorders' = [recorders EXCEPT ![r].data = @ + 1]
    /\ UNCHANGED <<recordingState, processingStage, ui, buffers, mediaRecorderRef,
                   audioChunksRef, isCancelledRef, cursorRef, acquiring, taskQueue,
                   async>>

(***************************************************************************)
(* RecordingController.                                                    *)
(***************************************************************************)
\* handleStartRecording up to its await (page.tsx 438-443).  The Record button
\* is rendered while recordingState is idle or stopped (632-637).
handleStartRecording ==
    /\ recordingState \in {"idle", "stopped"}
    /\ recordingState # "recording"
    /\ processingStage' = "idle"
    /\ isCancelledRef' = FALSE
    /\ acquiring' = Append(acquiring, [language |-> selectedLanguage])
    /\ UNCHANGED <<recordingState, ui, buffers, mediaRecorderRef, audioChunksRef,
                   cursorRef, recorders, taskQueue, async>>

\* getUserMedia resolved: the rest of the try block (444-501).
getUserMediaResolve(i) ==
    /\ i \in 1..Len(acquiring)
    /\ recorders' = Append(recorders, NewRecorder(acquiring[i]))
    /\ mediaRecorderRef' = Len(recorders) + 1
    /\ audioChunksRef' = << >>
    /\ recordingState' = "recording"
    /\ acquiring' = RemoveAt(acquiring, i)
    /\ UNCHANGED <<processingStage, ui, buffers, isCancelledRef, cursorRef,
                   taskQueue, async>>

\* (a slip: the catch block asks for the device again)
getUserMediaRejectRetries(i) ==
    /\ i \in 1..Len(acquiring)
    /\ processingStage' = "error"
    /\ UNCHANGED <<recordingState, ui, buffers, mediaRecorderRef, audioChunksRef,
                   isCancelledRef, cursorRef, recorders, acquiring, taskQueue, async>>

\* getUserMedia rejected: the catch block (502-506).
getUserMediaReject(i) ==
    /\ i \in 1..Len(acquiring)
    /\ processingStage' = "error"
    /\ acquiring' = RemoveAt(acquiring, i)
    /\ UNCHANGED <<recordingState, ui, buffers, mediaRecorderRef, audioChunksRef,
                   isCancelledRef, cursorRef, recorders, taskQueue, async>>

\* getUserMedia resolved and a later statement of the try block threw: the
\* MediaRecorder constructor (444; the stream is then held by nothing) or
\* start() (500; the recorder is referenced, inactive).  Control goes to the
\* catch block (502-506), which does not touch the stream.  A stream whose
\* recorder never ran is an inactive entry of recorders with live tracks.
getUserMediaResolveThrows(i, at) ==
    /\ i \in 1..Len(acquiring)
    /\ at \in {"new MediaRecorder", "start"}
    /\ recorders' = Append(recorders,
                           [NewRecorder(acquiring[i]) EXCEPT !.state = "inactive"])
    /\ IF at = "start"
       THEN /\ mediaRecorderRef' = Len(recorders) + 1
            /\ audioChunksRef' = << >>
       ELSE UNCHANGED <<mediaRecorderRef, audioChunksRef>>
    /\ processingStage' = "error"
    /\ acquiring' = RemoveAt(acquiring, i)
    /\ UNCHANGED <<recordingState, ui, buffers, isCancelledRef, cursorRef,
                   taskQueue, async>>

\* handlePauseRecording (509-514).  The round button calls it while
\* recordingState is recording (643).  MediaRecorder.pause() throws on an
\* inactive recorder, which leaves the handler before setRecordingState.
handlePauseRecording ==
    /\ recordingState = "recording"
    /\ mediaRecorderRef # 0
    /\ IF recorders[mediaRecorderRef].state = "inactive"
       THEN UNCHANGED <<recorders, recordingState>>
       ELSE /\ recorders' = [recorders EXCEPT ![mediaRecorderRef].state = "paused"]
            /\ recordingState' = "paused"
    /\ UNCHANGED <<processingStage, ui, buffers, mediaRecorderRef, audioChunksRef,
                   isCancelledRef, cursorRef, acquiring, taskQueue, async>>

\* handleResumeRecording (516-521), called by the round button while paused.
handleResumeRecording ==
    /\ recordingState = "paused"
    /\ mediaRecorderRef # 0
    /\ IF recorders[mediaRecorderRef].state = "inactive"
       THEN UNCHANGED <<recorders, recordingState>>
       ELSE /\ recorders' = [recorders EXCEPT ![mediaRecorderRef].state = "recording"]
            /\ recordingState' = "recording"
    /\ UNCHANGED <<processingStage, ui, buffers, mediaRecorderRef, audioChunksRef,
                   isCancelledRef, cursorRef, acquiring, taskQueue, async>>

\* handleStopRecording (523-527); the Stop button is rendered while
\* showCancelAndStop (648-652).
handleStopRecording ==
    /\ showCancelAndStop
    /\ mediaRecorderRef # 0
    /\ recordingState \in {"recording", "paused"}
    /\ LET r == mediaRecorderRef
           stopped == RecorderStop(recorders, taskQueue, r)
       IN  /\ recorders' = stopped.recs
           /\ taskQueue' = stopped.queue
    /\ UNCHANGED <<recordingState, processingStage, ui, buffers, mediaRecorderRef,
                   audioChunksRef, isCancelledRef, cursorRef, acquiring, async>>

\* (a slip, the behaviour of the earlier revision: a cancel clears the texts)
handleCancelRecordingResetsText ==
    /\ showCancelAndStop
    /\ IF mediaRecorderRef # 0
       THEN LET r == mediaRecorderRef
                stopped == RecorderStop(StopTracks(recorders, r), taskQueue, r)
            IN  /\ isCancelledRef' = TRUE
                /\ recorders' = stopped.recs
                /\ taskQueue' = stopped.queue
       ELSE UNCHANGED <<isCancelledRef, recorders, taskQueue>>
    /\ recordingState' = "idle"
    /\ processingStage' = "idle"
    /\ audioChunksRef' = << >>
    /\ transcription' = << >>
    /\ formattedText' = << >>
    /\ UNCHANGED <<ui, mediaRecorderRef, cursorRef, acquiring, async>>

\* handleCancelRecording (419-436); the Cancel button is rendered while
\* showCancelAndStop (626-630).
handleCancelRecording ==
    /\ showCancelAndStop
    /\ IF mediaRecorderRef # 0
       THEN LET r == mediaRecorderRef
                stopped == RecorderStop(StopTracks(recorders, r), taskQueue, r)
            IN  /\ isCancelledRef' = TRUE
                /\ recorders' = stopped.recs
                /\ taskQueue' = stopped.queue
       ELSE UNCHANGED <<isCancelledRef, recorders, taskQueue>>
    /\ recordingState' = "idle"
    /\ processingStage' = "idle"
    /\ audioChunksRef' = << >>
    /\ UNCHANGED <<ui, buffers, mediaRecorderRef, cursorRef, acquiring, async>>

\* resetState (405-417); the Reset button is disabled while isLoading (725).
\* Stopping the tracks ends the stream, so the browser stops an active recorder.
resetState ==
    /\ ~isLoading
    /\ IF mediaRecorderRef # 0
       THEN LET r == mediaRecorderRef
                stopped == RecorderStop(StopTracks(recorders, r), taskQueue, r)
            IN  /\ recorders' = stopped.recs
                /\ taskQueue' = stopped.queue
       ELSE UNCHANGED <<recorders, taskQueue>>
    /\ mediaRecorderRef' = 0
    /\ audioChunksRef' = << >>
    /\ recordingState' = "idle"
    /\ processingStage' = "idle"
    /\ transcription' = << >>
    /\ formattedText' = << >>
    /\ selectedStyle' = DEFAULT_FORMATTING_STYLE
    /\ selectedLanguage' = DEFAULT_LANGUAGE
    /\ UNCHANGED <<isCancelledRef, cursorRef, acquiring, async>>

\* ondataavailable (447-449): the chunk goes to whatever list the shared ref holds.
ondataavailable(chunks, r) == Append(chunks, [rec |-> r, size |-> recorders[r].data])

\* The recorder's queued task: dataavailable, then onstop (451-469).
onstop ==
    /\ taskQueue # << >>
    /\ LET r == Head(taskQueue)
           chunks == ondataavailable(audioChunksRef, r)
           released == StopTracks(recorders, r)
       IN  /\ taskQueue' = Tail(taskQueue)
           /\ audioChunksRef' = chunks
           /\ recorders' = released
           /\ IF isCancelledRef
              THEN /\ isCancelledRef' = FALSE
                   /\ UNCHANGED <<recordingState, readers>>
              ELSE /\ UNCHANGED isCancelledRef
                   /\ IF BlobSize(chunks) = 0
                      THEN /\ recordingState' = "idle"
                           /\ UNCHANGED readers
                      ELSE /\ recordingState' = "stopped"
                           /\ readers' = readers \cup {r}
    /\ UNCHANGED <<processingStage, ui, buffers, mediaRecorderRef, cursorRef,
                   acquiring, transcribing, formatting, timers>>

(***************************************************************************)
(* TranscriptionComposer.                                                  *)
(***************************************************************************)
\* reader.onloadend up to its await (470-477): the request is issued.
onloadend(r) ==
    /\ r \in readers
    /\ readers' = readers \ {r}
    /\ processingStage' = "transcribing"
    /\ transcribing' = transcribing \cup {r}
    /\ UNCHANGED <<recordingState, ui, buffers, mediaRecorderRef, audioChunksRef,
                   isCancelledRef, cursorRef, recorders, acquiring, taskQueue,
                   formatting, timers>>

\* The language hint of the request of recorder r (476): the selectedLanguage
\* of the render whose handleStartRecording created the recorder.
languageHint(r) == recorders[r].language

\* line 481
separator(prev, start) ==
    IF Len(prev) > 0 /\ start > 0 /\ charAt(prev, start - 1) # " " THEN <<" ">> ELSE << >>

\* (a slip: the selected text is kept, the result is inserted before it)
newTextKeepsSelection(prev, start, end, result) ==
    substring(prev, 0, start) \o separator(prev, start) \o result
        \o substring(prev, start, Len(prev))

\* line 482
newText(prev, start, end, result) ==
    substring(prev, 0, start) \o separator(prev, start) \o result
        \o substring(prev, end, Len(prev))

\* (a slip: the cursor is not advanced past the inserted text)
newCursorPosNotAdvanced(prev, start, result) == start

\* line 483
newCursorPos(prev, start, result) == start + Len(result) + Len(separator(prev, start))

\* transcribeAudio resolved: the setTranscription updater and
\* setProcessingStage('success') (478-491).
transcribeAudioResolve(r, result) ==
    /\ r \in transcribing
    /\ transcribing' = transcribing \ {r}
    /\ LET start == cursorRef.start
           end == cursorRef.end
       IN  /\ transcription' = newText(transcription, start, end, result)
           /\ timers' = Append(timers, newCursorPos(transcription, start, result))
    /\ processingStage' = "success"
    /\ UNCHANGED <<recordingState, ui, formattedText, mediaRecorderRef, audioChunksRef,
                   isCancelledRef, cursorRef, recorders, acquiring, taskQueue,
                   readers, formatting>>

\* (a slip: the failure path clears the transcription buffer)
transcribeAudioRejectClearsText(r) ==
    /\ r \in transcribing
    /\ transcribing' = transcribing \ {r}
    /\ processingStage' = "error"
    /\ transcription' = << >>
    /\ UNCHANGED <<recordingState, ui, formattedText, mediaRecorderRef, audioChunksRef,
                   isCancelledRef, cursorRef, recorders, acquiring, taskQueue,
                   readers, formatting, timers>>

\* transcribeAudio rejected: the catch block (492-496).
transcribeAudioReject(r) ==
    /\ r \in transcribing
    /\ transcribing' = transcribing \ {r}
    /\ processingStage' = "error"
    /\ UNCHANGED <<recordingState, ui, buffers, mediaRecorderRef, audioChunksRef,
                   isCancelledRef, cursorRef, recorders, acquiring, taskQueue,
                   readers, formatting, timers>>

\* The setTimeout callback of the updater (484-488): the cursor is published.
setTimeoutCallback ==
    /\ timers # << >>
    /\ cursorRef' = [start |-> Head(timers), end |-> Head(timers)]
    /\ timers' = Tail(timers)
    /\ UNCHANGED <<recordingState, processingStage, ui, buffers, mediaRecorderRef,
                   audioChunksRef, isCancelledRef, recorders, acquiring, taskQueue,
                   readers, transcribing, formatting>>

(***************************************************************************)
(* CursorTracker: the editor surface of the transcription box, which is    *)
(* disabled while isRecording || isLoading (679).                          *)
(***************************************************************************)
\* handleTranscriptionChange (562-565): value and selection of the textarea.
handleTranscriptionChange(value, selectionStart, selectionEnd) ==
    /\ ~(isRecording \/ isLoading)
    /\ value # transcription
    /\ transcription' = value
    /\ cursorRef' = [start |-> selectionStart, end |-> selectionEnd]
    /\ UNCHANGED <<recordingState, processingStage, ui, formattedText, mediaRecorderRef,
                   audioChunksRef, isCancelledRef, recorders, acquiring, taskQueue,
                   async>>

\* (a slip: the selection is not recorded)
handleTranscriptionSelectForgets(selectionStart, selectionEnd) ==
    /\ ~(isRecording \/ isLoading)
    /\ UNCHANGED prog

\* handleTranscriptionSelect (567-570).
handleTranscriptionSelect(selectionStart, selectionEnd) ==
    /\ ~(isRecording \/ isLoading)
    /\ cursorRef' = [start |-> selectionStart, end |-> selectionEnd]
    /\ UNCHANGED <<recordingState, processingStage, ui, buffers, mediaRecorderRef,
                   audioChunksRef, isCancelledRef, recorders, acquiring, taskQueue,
                   async>>

(***************************************************************************)
(* StyleDispatcher.                                                        *)
(***************************************************************************)
\* (a slip: the request carries the default language, not the selected one)
handleFormatTextDefaultLanguage ==
    /\ ~(isLoading \/ transcription = << >>)
    /\ transcription # << >>
    /\ Len(formatting) < MaxFormat
    /\ processingStage' = "formatting"
    /\ formatting' = Append(formatting, [text |-> transcription, style |-> selectedStyle,
                                         language |-> DEFAULT_LANGUAGE])
    /\ UNCHANGED <<recordingState, ui, buffers, mediaRecorderRef, audioChunksRef,
                   isCancelledRef, cursorRef, recorders, acquiring, taskQueue,
                   readers, transcribing, timers>>

\* handleFormatText up to its await (529-540); the Format button is disabled
\* while isLoading || !transcription (696).
handleFormatText ==
    /\ ~(isLoading \/ transcription = << >>)
    /\ transcription # << >>
    /\ Len(formatting) < MaxFormat
    /\ processingStage' = "formatting"
    /\ formatting' = Append(formatting, [text |-> transcription, style |-> selectedStyle,
                                         language |-> selectedLanguage])
    /\ UNCHANGED <<recordingState, ui, buffers, mediaRecorderRef, audioChunksRef,
                   isCancelledRef, cursorRef, recorders, acquiring, taskQueue,
                   readers, transcribing, timers>>

\* (a slip: the result is appended to the enhanced buffer)
formatTextResolveAppends(i, result) ==
    /\ i \in 1..Len(formatting)
    /\ formatting' = RemoveAt(formatting, i)
    /\ formattedText' = formattedText \o result
    /\ processingStage' = "success"
    /\ UNCHANGED <<recordingState, ui, transcription, mediaRecorderRef, audioChunksRef,
                   isCancelledRef, cursorRef, recorders, acquiring, taskQueue,
                   readers, transcribing, timers>>

\* formatText resolved (541-542).
formatTextResolve(i, result) ==
    /\ i \in 1..Len(formatting)
    /\ formatting' = RemoveAt(formatting, i)
    /\ formattedText' = result
    /\ processingStage' = "success"
    /\ UNCHANGED <<recordingState, ui, transcription, mediaRecorderRef, audioChunksRef,
                   isCancelledRef, cursorRef, recorders, acquiring, taskQueue,
                   readers, transcribing, timers>>

\* (a slip: the failure path clears the enhanced buffer)
formatTextRejectClearsEnhanced(i) ==
    /\ i \in 1..Len(formatting)
    /\ formatting' = RemoveAt(formatting, i)
    /\ processingStage' = "error"
    /\ formattedText' = << >>
    /\ UNCHANGED <<recordingState, ui, transcription, mediaRecorderRef, audioChunksRef,
                   isCancelledRef, cursorRef, recorders, acquiring, taskQueue,
                   readers, transcribing, timers>>

\* formatText rejected: the catch block (543-547).
formatTextReject(i) ==
    /\ i \in 1..Len(formatting)
    /\ formatting' = RemoveAt(formatting, i)
    /\ processingStage' = "error"
    /\ UNCHANGED <<recordingState, ui, buffers, mediaRecorderRef, audioChunksRef,
                   isCancelledRef, cursorRef, recorders, acquiring, taskQueue,
                   readers, transcribing, timers>>

(***************************************************************************)
(* The remaining controls.                                                 *)
(***************************************************************************)
\* handleLanguageSelect (557-560) and the EN / FA buttons (634, 638).  The
\* language dialog opens from a button that is never disabled (617).
handleLanguageSelect(langValue) ==
    /\ langValue # selectedLanguage
    /\ selectedLanguage' = langValue
    /\ UNCHANGED <<recordingState, processingStage, selectedStyle, buffers,
                   mediaRecorderRef, audioChunksRef, isCancelledRef, cursorRef,
                   recorders, acquiring, taskQueue, async>>

\* The style Select (684), disabled while isLoading || !transcription.
setSelectedStyle(style) ==
    /\ ~(isLoading \/ transcription = << >>)
    /\ style # selectedStyle
    /\ selectedStyle' = style
    /\ UNCHANGED <<recordingState, processingStage, selectedLanguage, buffers,
                   mediaRecorderRef, audioChunksRef, isCancelledRef, cursorRef,
                   recorders, acquiring, taskQueue, async>>

\* The enhanced box is editable while not isLoading (714-717).
setFormattedText(value) ==
    /\ ~isLoading
    /\ value # formattedText
    /\ formattedText' = value
    /\ UNCHANGED <<recordingState, processingStage, ui, transcription,
                   mediaRecorderRef, audioChunksRef, isCancelledRef, cursorRef,
                   recorders, acquiring, taskQueue, async>>

(***************************************************************************)
(* StyleSelect (unnamed/part_002).  A step is an event followed by the     *)
(* render it causes and the effects of that render; onChange calls go to   *)
(* the parent, which applies them to the value prop in a step of its own.  *)
(***************************************************************************)
\* options.some(o => o.value === value), and the card of a value
Range(s) == {s[i] : i \in DOMAIN s}
hasValid(value) == value # "" /\ value \in Range(StyleOptions)

\* isOpen of each card as rendered (142): the cards whose panel is open.
OpenPanels ==
    {i \in DOMAIN StyleOptions : ~styleSelect.disabled /\ styleSelect.openId = StyleOptions[i]}

\* (a slip: enabling never selects the default)
enableEffectNoDefault(s) ==
    IF s.disabled
    THEN [s EXCEPT !.openId = "null", !.prevDisabled = TRUE]
    ELSE IF s.prevDisabled
         THEN [s EXCEPT !.manualCollapsedFor = "null",
                        !.openId = IF hasValid(s.value) THEN s.value ELSE StyleOptions[1],
                        !.prevDisabled = FALSE]
         ELSE s

\* The enable/disable effect (68-82).
enableEffect(s) ==
    IF s.disabled
    THEN [s EXCEPT !.openId = "null", !.prevDisabled = TRUE]
    ELSE IF s.prevDisabled
         THEN [s EXCEPT !.calls = IF hasValid(s.value) THEN @ ELSE Append(@, StyleOptions[1]),
                        !.manualCollapsedFor = "null",
                        !.openId = IF hasValid(s.value) THEN s.value ELSE StyleOptions[1],
                        !.prevDisabled = FALSE]
         ELSE s

\* The selection effect (85-93); it runs after the enable/disable effect and
\* its setOpenId is the later one of the batch.
selectionEffect(s) ==
    IF s.disabled \/ s.value = "" THEN s
    ELSE IF s.manualCollapsedFor = s.value
         THEN [s EXCEPT !.manualCollapsedFor = "null"]
         ELSE [s EXCEPT !.openId = s.value]

\* The effects of a render: both have disabled and value among their
\* dependencies (82, 93) and run when one of them changed.
effects(old, s) ==
    IF old.disabled # s.disabled \/ old.value # s.value
    THEN selectionEffect(enableEffect(s))
    ELSE s

\* (a slip: the card handler does not look at disabled)
cardClickIgnoresDisabled(s, opt) ==
    IF s.openId = opt
    THEN [s EXCEPT !.manualCollapsedFor = opt, !.openId = "null"]
    ELSE [s EXCEPT !.calls = IF s.value = opt THEN @ ELSE Append(@, opt),
                   !.manualCollapsedFor = "null",
                   !.openId = opt]

\* (a slip: collapsing the open card selects it too)
cardClickAlwaysSelects(s, opt) ==
    IF s.disabled THEN s
    ELSE IF s.openId = opt
         THEN [s EXCEPT !.calls = Append(@, opt),
                        !.manualCollapsedFor = opt, !.openId = "null"]
         ELSE [s EXCEPT !.calls = IF s.value = opt THEN @ ELSE Append(@, opt),
                        !.manualCollapsedFor = "null",
                        !.openId = opt]

\* onCardClick (101-117) as a function of the component's state.
cardClick(s, opt) ==
    IF s.disabled THEN s
    ELSE IF s.openId = opt
         THEN [s EXCEPT !.manualCollapsedFor = opt, !.openId = "null"]
         ELSE [s EXCEPT !.calls = IF s.value = opt THEN @ ELSE Append(@, opt),
                        !.manualCollapsedFor = "null",
                        !.openId = opt]

\* The component is mounted with its first props; prevDisabled starts as
\* disabled (41) and every effect runs once.
StyleSelectMount(disabled, value) ==
    /\ ~styleSelect.mounted
    /\ styleSelect' =
           LET s == [styleSelect EXCEPT !.mounted = TRUE, !.disabled = disabled,
                                        !.value = value, !.prevDisabled = disabled]
           IN  selectionEffect(enableEffect(s))
    /\ UNCHANGED <<prog, formattingRing>>

\* The parent renders the component with other props.
StyleSelectProps(disabled, value) ==
    /\ styleSelect.mounted
    /\ disabled # styleSelect.disabled \/ value # styleSelect.value
    /\ Len(styleSelect.calls) < MaxCalls
    /\ styleSelect' = effects(styleSelect, [styleSelect EXCEPT !.disabled = disabled,
                                                               !.value = value])
    /\ UNCHANGED <<prog, formattingRing>>

\* The parent applies the oldest onChange call to the value it passes down.
StyleSelectApplied ==
    /\ styleSelect.mounted
    /\ styleSelect.calls # << >>
    /\ styleSelect' = effects(styleSelect, [styleSelect EXCEPT !.value = Head(styleSelect.calls),
                                                               !.calls = Tail(@)])
    /\ UNCHANGED <<prog, formattingRing>>

\* A click on a card (154).
onCardClick(opt) ==
    /\ styleSelect.mounted
    /\ Len(styleSelect.calls) < MaxCalls
    /\ styleSelect' = cardClick(styleSelect, opt)
    /\ UNCHANGED <<prog, formattingRing>>

\* onCardKeyDown (120-129) on the card whose data-value is dataValue.
onCardKeyDown(key, dataValue) ==
    /\ styleSelect.mounted
    /\ Len(styleSelect.calls) < MaxCalls
    /\ styleSelect' =
           IF styleSelect.disabled THEN styleSelect
           ELSE IF key = "Enter" \/ key = " "
                THEN IF dataValue \in Range(StyleOptions)
                     THEN cardClick(styleSelect, dataValue)
                     ELSE styleSelect
                ELSE styleSelect
    /\ UNCHANGED <<prog, formattingRing>>

(***************************************************************************)
(* FormattingRing (components/FormattingRing.tsx).                         *)
(***************************************************************************)
FormattingRingMount(disabled, options) ==
    /\ ~formattingRing.mounted
    /\ formattingRing' = [formattingRing EXCEPT !.mounted = TRUE, !.disabled = disabled,
                                                !.options = options]
    /\ UNCHANGED <<prog, styleSelect>>

\* The parent renders the ring with other props.
FormattingRingProps(disabled, options) ==
    /\ formattingRing.mounted
    /\ disabled # formattingRing.disabled \/ options # formattingRing.options
    /\ formattingRing' = [formattingRing EXCEPT !.disabled = disabled, !.options = options,
                                                !.confirmed = << >>]
    /\ UNCHANGED <<prog, styleSelect>>

\* (a slip: the reported id is passed on unchecked)
onPressUnchecked(iconId) ==
    /\ formattingRing.mounted
    /\ formattingRing' = [formattingRing EXCEPT !.confirmed = <<iconId>>]
    /\ UNCHANGED <<prog, styleSelect>>

\* The onPress prop of the ring picker (183-187); confirmed holds the
\* onConfirm calls of the last press.
onPress(iconId) ==
    /\ formattingRing.mounted
    /\ formattingRing' =
           [formattingRing EXCEPT !.confirmed =
               IF formattingRing.disabled THEN << >>
               ELSE IF iconId \in Range(formattingRing.options) THEN <<iconId>>
               ELSE << >>]
    /\ UNCHANGED <<prog, styleSelect>>

(***************************************************************************)
(* The three recorder handlers as functions, called in any state whatever  *)
(* the page renders: the if of each handler decides (510, 517, 524).       *)
(***************************************************************************)
\* (a slip: the handler tests the recorder reference alone)
handlePauseRecordingUnguarded ==
    IF mediaRecorderRef # 0
    THEN /\ recordingState' = "paused"
         /\ UNCHANGED <<processingStage, ui, buffers, mediaRecorderRef, audioChunksRef,
                        isCancelledRef, cursorRef, recorders, acquiring, taskQueue,
                        async>>
    ELSE UNCHANGED prog

handlePauseRecordingInvoked ==
    IF mediaRecorderRef # 0 /\ recordingState = "recording"
    THEN handlePauseRecording
    ELSE UNCHANGED prog

handleResumeRecordingInvoked ==
    IF mediaRecorderRef # 0 /\ recordingState = "paused"
    THEN handleResumeRecording
    ELSE UNCHANGED prog

handleStopRecordingInvoked ==
    IF mediaRecorderRef # 0 /\ recordingState \in {"recording", "paused"}
    THEN handleStopRecording
    ELSE UNCHANGED prog

\* (a slip: the handler dispatches without testing the buffer)
handleFormatTextUnchecked ==
    /\ ~isLoading
    /\ Len(formatting) < MaxFormat
    /\ processingStage' = "formatting"
    /\ formatting' = Append(formatting, [text |-> transcription, style |-> selectedStyle,
                                         language |-> selectedLanguage])
    /\ UNCHANGED <<recordingState, ui, buffers, mediaRecorderRef, audioChunksRef,
                   isCancelledRef, cursorRef, recorders, acquiring, taskQueue,
                   readers, transcribing, timers>>

\* handleFormatText called with an empty transcription buffer, which the
\* disabled button otherwise prevents: the early return of 530-533.
handleFormatTextInvoked ==
    IF transcription = << >>
    THEN UNCHANGED prog
    ELSE handleFormatText

(***************************************************************************)
(* History variables.  The actions above change the program's state only;  *)
(* each specification pairs an action with the record of what it did.      *)
(***************************************************************************)
NoHist == UNCHANGED hist
\* The page's steps leave the merge log and the two components alone.
NoLog == UNCHANGED <<mergeLog, components>>

\* Spec: which recordings were cancelled, had a request issued, were merged.
H_Cancel == hist' = [hist EXCEPT !.cancelled = @ \cup ({mediaRecorderRef} \ {0})]
H_Issue(r) == hist' = [hist EXCEPT !.requests = Append(@, r)]
H_Merge(r) == hist' = [hist EXCEPT !.merged = @ \cup {r}]

\* StopSpec: which recordings had stop pressed, which were abandoned (cancelled
\* or reset), and the requests issued.
H_Stop == hist' = [hist EXCEPT !.stopPressed = @ \cup {mediaRecorderRef}]
H_Abandon == hist' = [hist EXCEPT !.abandoned = @ \cup ({mediaRecorderRef} \ {0})]

\* StaleSpec: the requests in flight that are no longer the current attempt,
\* because the user has since started a recording or a formatting request,
\* cancelled or reset.
Supersede(h) == [h EXCEPT !.staleRecs = @ \cup transcribing,
                          !.staleFormats = [i \in DOMAIN @ |-> TRUE]]
H_Supersede == hist' = Supersede(hist)
H_Resolved(r) == hist' = [hist EXCEPT !.staleRecs = @ \ {r}]
H_Format == hist' = [Supersede(hist) EXCEPT !.staleFormats = Append(@, FALSE)]
H_FormatDone(i) == hist' = [hist EXCEPT !.staleFormats = RemoveAt(@, i)]

\* StepSpec: the last step taken: the handler or callback, the recording
\* state it ran in, the parts of the state it left as they were, and the
\* toast it raised (495, 505, 545).
FrameParts == {"recordingState", "processingStage", "buffers", "transcription",
               "cursor", "chunks", "devices", "pending", "requests"}
Kept ==
    {p \in FrameParts :
        CASE p = "recordingState" -> recordingState' = recordingState
          [] p = "processingStage" -> processingStage' = processingStage
          [] p = "buffers" -> buffers' = buffers
          [] p = "transcription" -> transcription' = transcription
          [] p = "cursor" -> <<cursorRef, timers>>' = <<cursorRef, timers>>
          [] p = "chunks" -> audioChunksRef' = audioChunksRef
          [] p = "devices" -> <<recorders, mediaRecorderRef>>'
                                 = <<recorders, mediaRecorderRef>>
          [] p = "pending" -> acquiring' = acquiring
          [] p = "requests" -> <<readers, transcribing, formatting>>'
                                 = <<readers, transcribing, formatting>>}
\* The requests and callbacks that are pending: device acquisitions, payloads
\* being encoded, transcription and formatting requests.
Pending ==
    Len(acquiring) + Cardinality(readers) + Cardinality(transcribing) + Len(formatting)
toast(op) ==
    CASE op \in {"getUserMediaReject", "getUserMediaResolveThrows"} -> "Recording Error"
      [] op = "handleFormatText: empty" -> "No Text to Format"
      [] op = "transcribeAudioReject" -> "Transcription Failed"
      [] op = "formatTextReject" -> "Formatting Failed"
      [] OTHER -> "none"
StepRecord(op) ==
    [op |-> op, from |-> recordingState, stage |-> processingStage,
     same |-> Kept, delta |-> Pending' - Pending, toast |-> toast(op)]
H_Step(op) ==
    hist' = [hist EXCEPT
        !.last = StepRecord(op),
        !.sinceCancel = CASE op = "handleCancelRecording" -> TRUE
                          [] op = "handleStartRecording" -> FALSE
                          [] OTHER -> @]
\* Which branch of onstop the step takes: the flag is set (453), the payload
\* is empty (460), or a payload is handed on (466).
onstopBranch ==
    IF isCancelledRef THEN "onstop: cancelled"
    ELSE IF \A i \in DOMAIN audioChunksRef' : audioChunksRef'[i].size = 0
         THEN "onstop: empty"
         ELSE "onstop: payload"
\* Which branch of handleFormatText the step takes (530).
formatBranch ==
    IF transcription = << >> THEN "handleFormatText: empty" ELSE "handleFormatText"

\* FormatSpec: the last step, the arguments each formatting request in
\* flight was dispatched with (the buffer, style and language of the moment
\* Format was pressed), and the text the service returned last.
F_Step(op) == hist' = [hist EXCEPT !.last = StepRecord(op)]
F_Dispatch ==
    hist' = [hist EXCEPT
        !.last = StepRecord(formatBranch),
        !.dispatched = IF transcription = << >> THEN @
                       ELSE Append(@, [text |-> transcription, style |-> selectedStyle,
                                       language |-> selectedLanguage])]
F_Resolved(i, result) ==
    hist' = [hist EXCEPT !.last = StepRecord("formatTextResolve"),
                         !.dispatched = RemoveAt(@, i),
                         !.returned = result]
F_Rejected(i) ==
    hist' = [hist EXCEPT !.last = StepRecord("formatTextReject"),
                         !.dispatched = RemoveAt(@, i)]

\* LanguageSpec: the language that was selected when Record was pressed, for
\* each acquisition in flight and then for each recorder.
L_Start == hist' = [hist EXCEPT !.acqLanguage = Append(@, selectedLanguage)]
L_Acquired(i) ==
    hist' = [hist EXCEPT !.recLanguage = Append(@, hist.acqLanguage[i]),
                         !.acqLanguage = RemoveAt(@, i)]
L_Refused(i) == hist' = [hist EXCEPT !.acqLanguage = RemoveAt(@, i)]

\* CursorSpec: the position most recently recorded (by the editor handlers
\* or by the timer of a merge), the position that was recorded when each
\* request was issued, the requests in flight during a recording by the
\* editor handlers, and the last merge as it was applied.
K_Touch(s, e) ==
    hist' = [hist EXCEPT !.cursorRecorded = [start |-> s, end |-> e],
                         !.touched = @ \cup transcribing]
K_Timer ==
    hist' = [hist EXCEPT !.cursorRecorded = [start |-> Head(timers), end |-> Head(timers)]]
K_Issue(r) == hist' = [hist EXCEPT !.cursorAtIssue = @ @@ (r :> hist.cursorRecorded)]
K_Merge(r, result) ==
    hist' = [hist EXCEPT
        !.applied = [rec |-> r, prev |-> transcription, result |-> result,
                     newText |-> transcription', recorded |-> hist.cursorRecorded,
                     atIssue |-> hist.cursorAtIssue[r], touched |-> r \in hist.touched]]

\* ResetSpec: the last step, the recordings that were running (recording or
\* paused) when Reset was pressed, the requests issued and the recordings
\* whose result was merged.
R_Reset ==
    hist' = [hist EXCEPT
        !.last = StepRecord("resetState"),
        !.resetWhile = @ \cup (IF isRecording THEN {mediaRecorderRef} \ {0} ELSE {})]
R_Issue(r) == hist' = [hist EXCEPT !.last = StepRecord("onloadend"),
                                   !.requests = Append(@, r)]
R_Merge(r) == hist' = [hist EXCEPT !.last = StepRecord("transcribeAudioResolve"),
                                   !.merged = @ \cup {r}]

\* ComponentSpec: the last step of StyleSelect, with the state before it, the
\* onChange calls it made, the card the user collapsed and has not clicked
\* since while value and disabled stayed as they were, and whether the step
\* before enabled the component onto its default; and the last press of the
\* ring, with the props it saw.
Called(consumed) ==
    SubSeq(styleSelect'.calls, Len(styleSelect.calls) - consumed + 1, Len(styleSelect'.calls))
Collapsed(activated, opt) ==
    IF styleSelect.disabled \/ styleSelect'.disabled \/ styleSelect'.value # styleSelect.value
    THEN "null"
    ELSE IF activated
         THEN IF styleSelect.openId = opt THEN opt ELSE "null"
         ELSE IF hist.select.op = "init" THEN "null" ELSE hist.select.collapsed
Defaulted(op) ==
    /\ op = "props"
    /\ styleSelect.disabled /\ ~styleSelect'.disabled
    /\ ~hasValid(styleSelect'.value)
    /\ styleSelect.calls = << >>
W_Step(op, activated, opt, consumed) ==
    /\ hist' = [hist EXCEPT !.select =
           [op |-> op, opt |-> opt, activated |-> activated, before |-> styleSelect,
            called |-> Called(consumed), collapsed |-> Collapsed(activated, opt),
            defaulted |-> Defaulted(op),
            afterDefault |-> hist.select.op # "init" /\ hist.select.defaulted]]
    /\ UNCHANGED mergeLog
G_Step(op, iconId) ==
    /\ hist' = [hist EXCEPT !.ring = [op |-> op, iconId |-> iconId, before |-> formattingRing]]
    /\ UNCHANGED mergeLog

M_Touch ==
    /\ mergeLog' = [mergeLog EXCEPT !.since = "touched"]
    /\ UNCHANGED components
M_Start ==
    /\ mergeLog' = [mergeLog EXCEPT !.acq = Append(@, [mergedAtStart |-> mergeLog.nMerged,
                                                       quietAtStart |-> (timers = << >>)])]
    /\ UNCHANGED components
M_Acquired(i) ==
    /\ mergeLog' = [mergeLog EXCEPT !.acq = RemoveAt(@, i),
                                    !.started = Append(@, mergeLog.acq[i])]
    /\ UNCHANGED components
M_Merge(r, result) ==
    /\ UNCHANGED components
    /\ mergeLog' = [mergeLog EXCEPT
        !.nMerged = @ + 1,
        !.since = "pending",
        !.prevMerge = mergeLog.lastMerge,
        !.lastMerge = [rec |-> r, prev |-> transcription, start |-> cursorRef.start,
                       end |-> cursorRef.end, result |-> result,
                       separator |-> separator(transcription, cursorRef.start),
                       newText |-> transcription', after |-> mergeLog.since]]
M_Timer ==
    /\ mergeLog' = [mergeLog EXCEPT !.since = IF Len(timers) = 1 /\ @ = "pending"
                                              THEN "published" ELSE @]
    /\ UNCHANGED components

(***************************************************************************)
(* Spec: the recording controller, the composer and the dispatcher, with   *)
(* the history of which recordings were cancelled, requested and merged.   *)
(* Language and style stay at their defaults and texts are short.          *)
(***************************************************************************)
\* Fewer than n recordings have been attempted.
Budget(n) == Len(recorders) + Len(acquiring) < n

Next ==
    \/ Budget(MaxRecorders) /\ handleStartRecording /\ NoHist /\ NoLog
    \/ \E i \in 1..Len(acquiring) : getUserMediaResolve(i) /\ NoHist /\ NoLog
    \/ \E i \in 1..Len(acquiring) : getUserMediaReject(i) /\ NoHist /\ NoLog
    \/ \E r \in Recs : Capture(r) /\ NoHist /\ NoLog
    \/ handlePauseRecording /\ NoHist /\ NoLog
    \/ handleResumeRecording /\ NoHist /\ NoLog
    \/ handleStopRecording /\ NoHist /\ NoLog
    \/ handleCancelRecording /\ H_Cancel /\ NoLog
    \/ resetState /\ NoHist /\ NoLog
    \/ onstop /\ NoHist /\ NoLog
    \/ \E r \in readers : onloadend(r) /\ H_Issue(r) /\ NoLog
    \/ \E r \in transcribing, result \in ShortResults :
           transcribeAudioResolve(r, result) /\ H_Merge(r) /\ NoLog
    \/ \E r \in transcribing : transcribeAudioReject(r) /\ NoHist /\ NoLog
    \/ setTimeoutCallback /\ NoHist /\ NoLog
    \/ \E value \in ShortTexts : \E caret \in 0..Len(value) :
           handleTranscriptionChange(value, caret, caret) /\ NoHist /\ NoLog
    \/ \E s \in 0..Len(transcription), e \in 0..Len(transcription) :
           s <= e /\ handleTranscriptionSelect(s, e) /\ NoHist /\ NoLog
    \/ handleFormatText /\ NoHist /\ NoLog
    \/ \E i \in 1..Len(formatting), result \in FormatResults :
           formatTextResolve(i, result) /\ NoHist /\ NoLog
    \/ \E i \in 1..Len(formatting) : formatTextReject(i) /\ NoHist /\ NoLog

Spec == Init /\ [][Next]_vars

(***************************************************************************)
(* StopSpec: the same machine, with the history of how each recording      *)
(* ended (stop pressed, cancelled, reset) and of the requests issued.      *)
(***************************************************************************)
StopNext ==
    \/ Budget(MaxRecorders) /\ handleStartRecording /\ NoHist /\ NoLog
    \/ \E i \in 1..Len(acquiring) : getUserMediaResolve(i) /\ NoHist /\ NoLog
    \/ \E i \in 1..Len(acquiring) : getUserMediaReject(i) /\ NoHist /\ NoLog
    \/ \E r \in Recs : Capture(r) /\ NoHist /\ NoLog
    \/ handlePauseRecording /\ NoHist /\ NoLog
    \/ handleResumeRecording /\ NoHist /\ NoLog
    \/ handleStopRecording /\ H_Stop /\ NoLog
    \/ handleCancelRecording /\ H_Abandon /\ NoLog
    \/ resetState /\ H_Abandon /\ NoLog
    \/ onstop /\ NoHist /\ NoLog
    \/ \E r \in readers : onloadend(r) /\ H_Issue(r) /\ NoLog
    \/ \E r \in transcribing, result \in ShortResults :
           transcribeAudioResolve(r, result) /\ NoHist /\ NoLog
    \/ \E r \in transcribing : transcribeAudioReject(r) /\ NoHist /\ NoLog
    \/ setTimeoutCallback /\ NoHist /\ NoLog
    \/ \E value \in ShortTexts : \E caret \in 0..Len(value) :
           handleTranscriptionChange(value, caret, caret) /\ NoHist /\ NoLog
    \/ \E s \in 0..Len(transcription), e \in 0..Len(transcription) :
           s <= e /\ handleTranscriptionSelect(s, e) /\ NoHist /\ NoLog
    \/ handleFormatText /\ NoHist /\ NoLog
    \/ \E i \in 1..Len(formatting), result \in FormatResults :
           formatTextResolve(i, result) /\ NoHist /\ NoLog
    \/ \E i \in 1..Len(formatting) : formatTextReject(i) /\ NoHist /\ NoLog

StopSpec == Init /\ [][StopNext]_vars

(***************************************************************************)
(* StaleSpec: the same machine, with the history of which requests in      *)
(* flight have been superseded by a later user action.                     *)
(***************************************************************************)
StaleNext ==
    \/ Budget(MaxRecorders) /\ handleStartRecording /\ H_Supersede /\ NoLog
    \/ \E i \in 1..Len(acquiring) : getUserMediaResolve(i) /\ NoHist /\ NoLog
    \/ \E i \in 1..Len(acquiring) : getUserMediaReject(i) /\ NoHist /\ NoLog
    \/ \E r \in Recs : Capture(r) /\ NoHist /\ NoLog
    \/ handlePauseRecording /\ NoHist /\ NoLog
    \/ handleResumeRecording /\ NoHist /\ NoLog
    \/ handleStopRecording /\ NoHist /\ NoLog
    \/ handleCancelRecording /\ H_Supersede /\ NoLog
    \/ resetState /\ H_Supersede /\ NoLog
    \/ onstop /\ NoHist /\ NoLog
    \/ \E r \in readers : onloadend(r) /\ NoHist /\ NoLog
    \/ \E r \in transcribing, result \in ShortResults :
           transcribeAudioResolve(r, result) /\ H_Resolved(r) /\ NoLog
    \/ \E r \in transcribing : transcribeAudioReject(r) /\ H_Resolved(r) /\ NoLog
    \/ setTimeoutCallback /\ NoHist /\ NoLog
    \/ \E value \in ShortTexts : \E caret \in 0..Len(value) :
           handleTranscriptionChange(value, caret, caret) /\ NoHist /\ NoLog
    \/ \E s \in 0..Len(transcription), e \in 0..Len(transcription) :
           s <= e /\ handleTranscriptionSelect(s, e) /\ NoHist /\ NoLog
    \/ handleFormatText /\ H_Format /\ NoLog
    \/ \E i \in 1..Len(formatting), result \in FormatResults :
           formatTextResolve(i, result) /\ H_FormatDone(i) /\ NoLog
    \/ \E i \in 1..Len(formatting) : formatTextReject(i) /\ H_FormatDone(i) /\ NoLog

StaleSpec == Init /\ [][StaleNext]_vars

(***************************************************************************)
(* EditorSpec: one dictation into the transcription box, with the history  *)
(* of the merge.  The user types, selects and resets before and after it;  *)
(* texts and answers are drawn from the full sets.                         *)
(***************************************************************************)
EditorNext ==
    \/ Budget(MaxDictations) /\ handleStartRecording /\ M_Start /\ NoHist
    \/ \E i \in 1..Len(acquiring) : getUserMediaResolve(i) /\ M_Acquired(i) /\ NoHist
    \/ \E r \in Recs : Capture(r) /\ NoHist /\ NoLog
    \/ handleStopRecording /\ NoHist /\ NoLog
    \/ resetState /\ M_Touch /\ NoHist
    \/ onstop /\ NoHist /\ NoLog
    \/ \E r \in readers : onloadend(r) /\ NoHist /\ NoLog
    \/ \E r \in transcribing, result \in TranscriptionResults :
           transcribeAudioResolve(r, result) /\ M_Merge(r, result) /\ NoHist
    \/ setTimeoutCallback /\ M_Timer /\ NoHist
    \/ \E value \in EditTexts : \E caret \in 0..Len(value) :
           handleTranscriptionChange(value, caret, caret) /\ M_Touch /\ NoHist
    \/ \E s \in 0..Len(transcription), e \in 0..Len(transcription) :
           s <= e /\ handleTranscriptionSelect(s, e) /\ M_Touch /\ NoHist

EditorSpec == Init /\ [][EditorNext]_vars

(***************************************************************************)
(* DictationSpec: several dictations, possibly overlapping, with the       *)
(* history of the merges; the texts the user types are short.              *)
(***************************************************************************)
DictationNext ==
    \/ Budget(MaxRecorders) /\ handleStartRecording /\ M_Start /\ NoHist
    \/ \E i \in 1..Len(acquiring) : getUserMediaResolve(i) /\ M_Acquired(i) /\ NoHist
    \/ \E r \in Recs : Capture(r) /\ NoHist /\ NoLog
    \/ handleStopRecording /\ NoHist /\ NoLog
    \/ resetState /\ M_Touch /\ NoHist
    \/ onstop /\ NoHist /\ NoLog
    \/ \E r \in readers : onloadend(r) /\ NoHist /\ NoLog
    \/ \E r \in transcribing, result \in DictationResults :
           transcribeAudioResolve(r, result) /\ M_Merge(r, result) /\ NoHist
    \/ setTimeoutCallback /\ M_Timer /\ NoHist
    \/ \E value \in ShortTexts : \E caret \in 0..Len(value) :
           handleTranscriptionChange(value, caret, caret) /\ M_Touch /\ NoHist
    \/ \E s \in 0..Len(transcription), e \in 0..Len(transcription) :
           s <= e /\ handleTranscriptionSelect(s, e) /\ M_Touch /\ NoHist

DictationSpec == Init /\ [][DictationNext]_vars

(***************************************************************************)
(* StepSpec: the whole machine, with the history of the last step.  A      *)
(* start may also fail after the device was acquired, and the recorder     *)
(* handlers are called in every state.                                     *)
(***************************************************************************)
StepNext ==
    \/ Budget(MaxRecorders) /\ handleStartRecording /\ H_Step("handleStartRecording") /\ NoLog
    \/ \E i \in 1..Len(acquiring) :
           getUserMediaResolve(i) /\ H_Step("getUserMediaResolve") /\ NoLog
    \/ \E i \in 1..Len(acquiring) :
           getUserMediaReject(i) /\ H_Step("getUserMediaReject") /\ NoLog
    \/ \E i \in 1..Len(acquiring), at \in {"new MediaRecorder", "start"} :
           getUserMediaResolveThrows(i, at) /\ H_Step("getUserMediaResolveThrows") /\ NoLog
    \/ \E r \in Recs : Capture(r) /\ H_Step("Capture") /\ NoLog
    \/ handlePauseRecordingInvoked /\ H_Step("handlePauseRecording") /\ NoLog
    \/ handleResumeRecordingInvoked /\ H_Step("handleResumeRecording") /\ NoLog
    \/ handleStopRecordingInvoked /\ H_Step("handleStopRecording") /\ NoLog
    \/ handleCancelRecording /\ H_Step("handleCancelRecording") /\ NoLog
    \/ resetState /\ H_Step("resetState") /\ NoLog
    \/ onstop /\ H_Step(onstopBranch) /\ NoLog
    \/ \E r \in readers : onloadend(r) /\ H_Step("onloadend") /\ NoLog
    \/ \E r \in transcribing, result \in ShortResults :
           transcribeAudioResolve(r, result) /\ H_Step("transcribeAudioResolve") /\ NoLog
    \/ \E r \in transcribing :
           transcribeAudioReject(r) /\ H_Step("transcribeAudioReject") /\ NoLog
    \/ setTimeoutCallback /\ H_Step("setTimeout") /\ NoLog
    \/ \E value \in ShortTexts : \E caret \in 0..Len(value) :
           handleTranscriptionChange(value, caret, caret)
               /\ H_Step("handleTranscriptionChange") /\ NoLog
    \/ handleFormatTextInvoked /\ H_Step(formatBranch) /\ NoLog
    \/ \E i \in 1..Len(formatting), result \in FormatResults :
           formatTextResolve(i, result) /\ H_Step("formatTextResolve") /\ NoLog
    \/ \E i \in 1..Len(formatting) :
           formatTextReject(i) /\ H_Step("formatTextReject") /\ NoLog

StepSpec == Init /\ [][StepNext]_vars

(***************************************************************************)
(* LiveSpec: the machine with the history of how each recording ended,     *)
(* and with its scheduling: a queued recorder task runs, a FileReader      *)
(* finishes (loadend fires on success and on failure), the permission      *)
(* prompt and the two services answer, a timer fires.  Nothing obliges     *)
(* the user to act.                                                        *)
(***************************************************************************)
DeviceSettles ==
    /\ \E i \in 1..Len(acquiring) : getUserMediaResolve(i) \/ getUserMediaReject(i)
    /\ NoHist /\ NoLog
RecorderTaskRuns == onstop /\ NoHist /\ NoLog
ReaderLoads == (\E r \in readers : onloadend(r)) /\ NoHist /\ NoLog
TranscriptionSettles ==
    /\ \E r \in transcribing :
           \/ \E result \in ShortResults : transcribeAudioResolve(r, result)
           \/ transcribeAudioReject(r)
    /\ NoHist /\ NoLog
FormattingSettles ==
    /\ \E i \in 1..Len(formatting) :
           \/ \E result \in FormatResults : formatTextResolve(i, result)
           \/ formatTextReject(i)
    /\ NoHist /\ NoLog
TimerFires == setTimeoutCallback /\ NoHist /\ NoLog

LiveNext ==
    \/ Budget(MaxRecorders) /\ handleStartRecording /\ NoHist /\ NoLog
    \/ DeviceSettles
    \/ \E r \in Recs : Capture(r) /\ NoHist /\ NoLog
    \/ handlePauseRecording /\ NoHist /\ NoLog
    \/ handleResumeRecording /\ NoHist /\ NoLog
    \/ handleStopRecording /\ H_Stop /\ NoLog
    \/ handleCancelRecording /\ H_Abandon /\ NoLog
    \/ resetState /\ H_Abandon /\ NoLog
    \/ RecorderTaskRuns
    \/ ReaderLoads
    \/ TranscriptionSettles
    \/ TimerFires
    \/ \E value \in ShortTexts : \E caret \in 0..Len(value) :
           handleTranscriptionChange(value, caret, caret) /\ NoHist /\ NoLog
    \/ handleFormatText /\ NoHist /\ NoLog
    \/ FormattingSettles

LiveSpec ==
    /\ Init
    /\ [][LiveNext]_vars
    /\ WF_vars(DeviceSettles)
    /\ WF_vars(RecorderTaskRuns)
    /\ WF_vars(ReaderLoads)
    /\ WF_vars(TranscriptionSettles)
    /\ WF_vars(FormattingSettles)
    /\ WF_vars(TimerFires)

(***************************************************************************)
(* FormatSpec: the dispatcher, with one recording beside it.  The user     *)
(* types, picks styles and languages, edits the enhanced box, formats and  *)
(* resets; the history holds the arguments of the requests in flight.      *)
(***************************************************************************)
FormatNext ==
    \/ Budget(MaxDictations) /\ handleStartRecording /\ F_Step("handleStartRecording") /\ NoLog
    \/ \E i \in 1..Len(acquiring) :
           getUserMediaResolve(i) /\ F_Step("getUserMediaResolve") /\ NoLog
    \/ \E i \in 1..Len(acquiring) :
           getUserMediaReject(i) /\ F_Step("getUserMediaReject") /\ NoLog
    \/ \E r \in Recs : Capture(r) /\ F_Step("Capture") /\ NoLog
    \/ handleStopRecording /\ F_Step("handleStopRecording") /\ NoLog
    \/ handleCancelRecording /\ F_Step("handleCancelRecording") /\ NoLog
    \/ resetState /\ F_Step("resetState") /\ NoLog
    \/ onstop /\ F_Step(onstopBranch) /\ NoLog
    \/ \E r \in readers : onloadend(r) /\ F_Step("onloadend") /\ NoLog
    \/ \E r \in transcribing, result \in ShortResults :
           transcribeAudioResolve(r, result) /\ F_Step("transcribeAudioResolve") /\ NoLog
    \/ setTimeoutCallback /\ F_Step("setTimeout") /\ NoLog
    \/ \E value \in ShortTexts : \E caret \in 0..Len(value) :
           handleTranscriptionChange(value, caret, caret)
               /\ F_Step("handleTranscriptionChange") /\ NoLog
    \/ \E langValue \in LANGUAGES :
           handleLanguageSelect(langValue) /\ F_Step("handleLanguageSelect") /\ NoLog
    \/ \E style \in FORMATTING_STYLES :
           setSelectedStyle(style) /\ F_Step("setSelectedStyle") /\ NoLog
    \/ \E value \in ShortTexts :
           setFormattedText(value) /\ F_Step("setFormattedText") /\ NoLog
    \/ handleFormatTextInvoked /\ F_Dispatch /\ NoLog
    \/ \E i \in 1..Len(formatting), result \in EnhancedResults :
           formatTextResolve(i, result) /\ F_Resolved(i, result) /\ NoLog
    \/ \E i \in 1..Len(formatting) : formatTextReject(i) /\ F_Rejected(i) /\ NoLog

FormatSpec == Init /\ [][FormatNext]_vars

(***************************************************************************)
(* LanguageSpec: the recording controller and the language controls.       *)
(***************************************************************************)
LanguageNext ==
    \/ Budget(MaxRecorders) /\ handleStartRecording /\ L_Start /\ NoLog
    \/ \E i \in 1..Len(acquiring) : getUserMediaResolve(i) /\ L_Acquired(i) /\ NoLog
    \/ \E i \in 1..Len(acquiring) : getUserMediaReject(i) /\ L_Refused(i) /\ NoLog
    \/ \E r \in Recs : Capture(r) /\ NoHist /\ NoLog
    \/ handlePauseRecording /\ NoHist /\ NoLog
    \/ handleResumeRecording /\ NoHist /\ NoLog
    \/ handleStopRecording /\ NoHist /\ NoLog
    \/ handleCancelRecording /\ NoHist /\ NoLog
    \/ resetState /\ NoHist /\ NoLog
    \/ onstop /\ NoHist /\ NoLog
    \/ \E r \in readers : onloadend(r) /\ NoHist /\ NoLog
    \/ \E r \in transcribing, result \in ShortResults :
           transcribeAudioResolve(r, result) /\ NoHist /\ NoLog
    \/ \E r \in transcribing : transcribeAudioReject(r) /\ NoHist /\ NoLog
    \/ setTimeoutCallback /\ NoHist /\ NoLog
    \/ \E langValue \in LANGUAGES : handleLanguageSelect(langValue) /\ NoHist /\ NoLog

LanguageSpec == Init /\ [][LanguageNext]_vars

(***************************************************************************)
(* CursorSpec: dictation and editing, where Record pressed while a request *)
(* is in flight re-enables the transcription box until the device is       *)
(* granted, so that the cursor can move between a request and its result.  *)
(***************************************************************************)
CursorNext ==
    \/ Budget(MaxRecorders) /\ handleStartRecording /\ NoHist /\ NoLog
    \/ \E i \in 1..Len(acquiring) : getUserMediaResolve(i) /\ NoHist /\ NoLog
    \/ \E i \in 1..Len(acquiring) : getUserMediaReject(i) /\ NoHist /\ NoLog
    \/ \E r \in Recs : Capture(r) /\ NoHist /\ NoLog
    \/ handleStopRecording /\ NoHist /\ NoLog
    \/ resetState /\ NoHist /\ NoLog
    \/ onstop /\ NoHist /\ NoLog
    \/ \E r \in readers : onloadend(r) /\ K_Issue(r) /\ NoLog
    \/ \E r \in transcribing, result \in ShortResults :
           transcribeAudioResolve(r, result) /\ K_Merge(r, result) /\ NoLog
    \/ setTimeoutCallback /\ K_Timer /\ NoLog
    \/ \E value \in ShortTexts : \E caret \in 0..Len(value) :
           handleTranscriptionChange(value, caret, caret) /\ K_Touch(caret, caret) /\ NoLog
    \/ \E s \in 0..Len(transcription), e \in 0..Len(transcription) :
           s <= e /\ handleTranscriptionSelect(s, e) /\ K_Touch(s, e) /\ NoLog

CursorSpec == Init /\ [][CursorNext]_vars

(***************************************************************************)
(* ResetSpec: one recording, the editor, and the Reset button, which is    *)
(* enabled whenever no request is in flight (725).                         *)
(***************************************************************************)
ResetNext ==
    \/ Budget(MaxDictations) /\ handleStartRecording /\ F_Step("handleStartRecording") /\ NoLog
    \/ \E i \in 1..Len(acquiring) :
           getUserMediaResolve(i) /\ F_Step("getUserMediaResolve") /\ NoLog
    \/ \E r \in Recs : Capture(r) /\ F_Step("Capture") /\ NoLog
    \/ handlePauseRecording /\ F_Step("handlePauseRecording") /\ NoLog
    \/ handleResumeRecording /\ F_Step("handleResumeRecording") /\ NoLog
    \/ handleStopRecording /\ F_Step("handleStopRecording") /\ NoLog
    \/ handleCancelRecording /\ F_Step("handleCancelRecording") /\ NoLog
    \/ resetState /\ R_Reset /\ NoLog
    \/ onstop /\ F_Step(onstopBranch) /\ NoLog
    \/ \E r \in readers : onloadend(r) /\ R_Issue(r) /\ NoLog
    \/ \E r \in transcribing, result \in ShortResults :
           transcribeAudioResolve(r, result) /\ R_Merge(r) /\ NoLog
    \/ \E r \in transcribing :
           transcribeAudioReject(r) /\ F_Step("transcribeAudioReject") /\ NoLog
    \/ setTimeoutCallback /\ F_Step("setTimeout") /\ NoLog
    \/ \E value \in ShortTexts : \E caret \in 0..Len(value) :
           handleTranscriptionChange(value, caret, caret)
               /\ F_Step("handleTranscriptionChange") /\ NoLog
    \/ \E langValue \in LANGUAGES :
           handleLanguageSelect(langValue) /\ F_Step("handleLanguageSelect") /\ NoLog

ResetSpec == Init /\ [][ResetNext]_vars

(***************************************************************************)
(* ComponentSpec: StyleSelect and FormattingRing under a parent that may   *)
(* pass any props and a user who may click, type and spin at any time.     *)
(***************************************************************************)
ComponentNext ==
    \/ \E disabled \in BOOLEAN, value \in StyleValues :
           StyleSelectMount(disabled, value) /\ W_Step("mount", FALSE, "null", 0)
    \/ \E disabled \in BOOLEAN, value \in StyleValues :
           StyleSelectProps(disabled, value) /\ W_Step("props", FALSE, "null", 0)
    \/ StyleSelectApplied /\ W_Step("applied", FALSE, "null", 1)
    \/ \E opt \in Range(StyleOptions) :
           onCardClick(opt) /\ W_Step("onCardClick", TRUE, opt, 0)
    \/ \E key \in CardKeys, opt \in Range(StyleOptions) :
           onCardKeyDown(key, opt)
               /\ W_Step("onCardKeyDown", key \in {"Enter", " "}, opt, 0)
    \/ \E disabled \in BOOLEAN, options \in RingOptionLists :
           FormattingRingMount(disabled, options) /\ G_Step("mount", "null")
    \/ \E disabled \in BOOLEAN, options \in RingOptionLists :
           FormattingRingProps(disabled, options) /\ G_Step("props", "null")
    \/ \E iconId \in IconIds : onPress(iconId) /\ G_Step("onPress", iconId)

ComponentSpec == Init /\ [][ComponentNext]_vars

(***************************************************************************)
(* Properties.                                                             *)
(***************************************************************************)
\* How many transcription requests were issued for recorder r.
Requests(r) == Cardinality({i \in DOMAIN hist.requests : hist.requests[i] = r})

\* The recorder's queued task has run.
Fired(r) == recorders[r].state = "inactive" /\ \A i \in DOMAIN taskQueue : taskQueue[i] # r

\* C1: a recording that was cancelled never has a transcription request issued
\* for it and never has a result merged into the transcription buffer.
C1_CancelledNeverTranscribed ==
    \A r \in hist.cancelled : Requests(r) = 0 /\ r \notin hist.merged

\* C2: a recording ended with stop(), never cancelled (nor reset), whose
\* recorder delivered a non-empty payload, gets exactly one transcription
\* request: none is issued twice, and once its stop callback has run the
\* request is issued or its payload is being encoded for it.
C2_ExactlyOneRequest ==
    \A r \in Recs :
        /\ Requests(r) <= 1
        /\ (/\ r \in hist.stopPressed \ hist.abandoned
            /\ Fired(r)
            /\ recorders[r].data > 0) => (r \in readers \/ Requests(r) = 1)

\* C3: a transcription or formatting result that resolves after the user has
\* cancelled, reset, or started a new recording or formatting request changes
\* neither text buffer nor the processing stage.
C3_StaleResultDiscarded ==
    [][/\ \A r \in transcribing \ transcribing' :
             r \in hist.staleRecs
                => UNCHANGED <<transcription, formattedText, processingStage>>
       /\ \A i \in DOMAIN formatting :
             (Len(formatting') < Len(formatting) /\ hist.staleFormats[i])
                => UNCHANGED <<transcription, formattedText, processingStage>>]_vars

\* C4: at most one asynchronous request (transcription or formatting) is in
\* flight at any time.
C4_SingleFlight == Cardinality(transcribing) + Len(formatting) <= 1

\* C5: the tracked cursor always satisfies 0 <= start <= end <= length(buffer).
C5_CursorInBuffer ==
    /\ 0 <= cursorRef.start
    /\ cursorRef.start <= cursorRef.end
    /\ cursorRef.end <= Len(transcription)

\* The last merge and the one before it.
Merged == mergeLog.lastMerge.rec # 0
MergedTwice == Merged /\ mergeLog.prevMerge.rec # 0
m1 == mergeLog.prevMerge
m2 == mergeLog.lastMerge

\* b[0:i] and b[i:] of the specification: the part of b before and from offset i.
Before(b, i) == SubSeq(b, 1, Min(i, Len(b)))
From(b, i) == SubSeq(b, Min(i, Len(b)) + 1, Len(b))

\* C6: a merge of result r at cursor {start, end} into buffer b yields
\* b[0:start] + separator + r + b[end:].
C6_MergeSplices ==
    Merged => m2.newText = Before(m2.prev, m2.start) \o m2.separator \o m2.result
                              \o From(m2.prev, m2.end)

\* C6 witness: a merge that replaced a selection inside the text.
C6_Witness ==
    Merged /\ 0 < m2.start /\ m2.start < m2.end /\ m2.end < Len(m2.prev)
           /\ m2.result # << >>

\* C7: the separator is one space exactly when the buffer is non-empty,
\* start > 0 and the character before start is not whitespace; else it is empty.
C7_SeparatorRule ==
    Merged => m2.separator =
        IF /\ Len(m2.prev) > 0
           /\ m2.start > 0
           /\ m2.start <= Len(m2.prev) => m2.prev[m2.start] \notin Whitespace
        THEN <<" ">> ELSE << >>

\* The position a merge is to leave the cursor at.
CursorAfter(m) == m.start + Len(m.separator) + Len(m.result)

\* C8: once a merge has published its cursor and the user has not touched the
\* box since, the tracked cursor is collapsed at start + len(separator) +
\* len(result); and a merge that follows another with no user selection change
\* in between reads that position.
C8_CursorPublished ==
    /\ (Merged /\ mergeLog.since = "published")
          => cursorRef = [start |-> CursorAfter(m2), end |-> CursorAfter(m2)]
    /\ (MergedTwice /\ m2.after # "touched")
          => m2.start = CursorAfter(m1) /\ m2.end = CursorAfter(m1)

\* C9: a merge of r into an empty buffer leaves the buffer r, with no
\* separator, and the cursor at {len(r), len(r)}.
C9_MergeIntoEmpty ==
    (Merged /\ m2.prev = << >>)
       => /\ m2.newText = m2.result
          /\ m2.separator = << >>
          /\ mergeLog.since = "published"
                => cursorRef = [start |-> Len(m2.result), end |-> Len(m2.result)]

\* The second of two sequential dictations: its recording was started after the
\* first merge had published its cursor, and the user did not touch the box
\* between the two merges.
Sequential ==
    /\ MergedTwice
    /\ m2.after = "published"
    /\ mergeLog.started[m2.rec].mergedAtStart = mergeLog.nMerged - 1
    /\ mergeLog.started[m2.rec].quietAtStart

Trimmed(r) == r = << >> \/ (r[1] \notin Whitespace /\ r[Len(r)] \notin Whitespace)

\* C10 as stated: two sequential dictations r1, r2 (without leading or trailing
\* whitespace) into an empty buffer yield r1 + ' ' + r2.
C10_TwoDictations ==
    (Sequential /\ m1.prev = << >> /\ Trimmed(m1.result) /\ Trimmed(m2.result))
       => m2.newText = m1.result \o <<" ">> \o m2.result

\* C10 as amended: the same, for a non-empty first result.
C10_TwoDictationsNonEmpty ==
    (Sequential /\ m1.prev = << >> /\ m1.result # << >>
        /\ Trimmed(m1.result) /\ Trimmed(m2.result))
       => m2.newText = m1.result \o <<" ">> \o m2.result

\* C10 witness: two different words dictated one after the other.
C10_Witness ==
    /\ Sequential /\ m1.prev = << >>
    /\ m1.result = <<"x">> /\ m2.result = <<"z">>
    /\ transcription = <<"x", " ", "z">>

\* The last step recorded by StepSpec.
last == hist.last

\* The devices (streams) whose tracks are live.
LiveDevices == {r \in Recs : recorders[r].tracks}

\* C11: when the stop callback of a recording finds the flag clear and a
\* payload of size zero, the recording state becomes idle, the processing
\* stage, both buffers and the cursor are left as they were, and no
\* transcription request is started.
C11_EmptyCapture ==
    last.op = "onstop: empty" =>
        /\ recordingState = "idle"
        /\ {"processingStage", "buffers", "cursor", "requests"} \subseteq last.same

\* C11 witness: a recording stopped before any audio was gathered.
C11_Witness ==
    /\ last.op = "onstop: empty"
    /\ last.from = "recording"
    /\ audioChunksRef # << >>

\* C12: from a cancel until the next start, the recording state is idle, the
\* chunk list is empty and the cancelled recorder's device is released; the
\* cancelled recorder's stop callback changes none of this.
C12_CancelledStaysIdle ==
    hist.sinceCancel =>
        /\ recordingState = "idle"
        /\ audioChunksRef = << >>
        /\ mediaRecorderRef # 0 => ~recorders[mediaRecorderRef].tracks

\* C13: the stop callback of a cancelled recording runs its flag check after
\* the cancel set the flag, and finds the flag still set.  (That the cancel
\* sets the flag before it releases the device, and that the callback checks
\* it before it builds the payload, is the order of the statements inside
\* handleCancelRecording and onstop.)
C13_CancelledCallbackSeesFlag ==
    [][(/\ taskQueue # << >>
        /\ taskQueue' = Tail(taskQueue)
        /\ Head(taskQueue) \in hist.cancelled) => isCancelledRef]_vars

\* C14: while the recording state is recording or paused exactly one device is
\* acquired, and every recorder that is running is the one the page refers to.
C14_SingleSession ==
    isRecording =>
        /\ Cardinality(LiveDevices) = 1
        /\ \A r \in Recs : recorders[r].state # "inactive" => r = mediaRecorderRef

\* C15: a device is held only by a recorder that is running or whose stop
\* callback is still queued: once a recording attempt has ended (stopped,
\* cancelled, or failed after the device was acquired) its device is released.
C15_DeviceReleased ==
    \A r \in LiveDevices :
        \/ recorders[r].state # "inactive"
        \/ \E i \in DOMAIN taskQueue : taskQueue[i] = r

\* C16: start is taken only from idle or stopped, and when it succeeds the
\* recording state is recording, the cancellation flag is clear and the chunk
\* list is empty.
C16_StartValidity ==
    /\ last.op = "handleStartRecording" => last.from \in {"idle", "stopped"}
    /\ last.op = "getUserMediaResolve" =>
           /\ recordingState = "recording"
           /\ ~isCancelledRef
           /\ audioChunksRef = << >>

\* C17: when the device acquisition of a start fails (no other start pending,
\* no recording running), the recording state is idle and the processing
\* stage is error, the attempt holds no device, both buffers are as they
\* were, the error toast is raised, and Record can be pressed again.
C17_AcquisitionFailure ==
    (last.op = "getUserMediaReject" /\ acquiring = << >> /\ ~isRecording) =>
        /\ recordingState = "idle"
        /\ processingStage = "error"
        /\ {"devices", "buffers"} \subseteq last.same
        /\ last.toast = "Recording Error"

\* C18: pause called outside recording, resume called outside paused, and stop
\* called in idle or stopped change nothing: recording state, processing
\* stage, devices, chunk list, buffers, cursor and requests are as they were.
C18_InvalidCallsAreNoOps ==
    /\ (last.op = "handlePauseRecording" /\ last.from # "recording")
           => last.same = FrameParts
    /\ (last.op = "handleResumeRecording" /\ last.from # "paused")
           => last.same = FrameParts
    /\ (last.op = "handleStopRecording" /\ last.from \in {"idle", "stopped"})
           => last.same = FrameParts

\* C18 witness: pause called while idle, with a recorder still referenced.
C18_Witness ==
    /\ last.op = "handlePauseRecording"
    /\ last.from = "idle"
    /\ mediaRecorderRef # 0

\* C19, the stage once a request is in flight: a stage of transcribing or
\* formatting is always followed by success or error.
C19_StageSettles ==
    (processingStage \in {"transcribing", "formatting"})
        ~> (processingStage \in {"success", "error"})

\* C19, the encoding step: a payload being read is followed by the stage
\* transcribing.
C19_ReaderLeadsToTranscribing ==
    \A r \in 1..MaxRecorders : (r \in readers) ~> (processingStage = "transcribing")

\* C19: the stop callback of a recording that was stopped (never cancelled or
\* reset) with a non-empty payload sets the recording state to stopped and
\* hands the payload to the reader; a payload being read is followed by the
\* stage transcribing, and a stage of transcribing or formatting by success
\* or error.
C19_StopLeadsToResult ==
    /\ [][(/\ taskQueue # << >>
            /\ taskQueue' = Tail(taskQueue)
            /\ Head(taskQueue) \in hist.stopPressed \ hist.abandoned
            /\ recorders[Head(taskQueue)].data > 0)
              => (recordingState' = "stopped" /\ Head(taskQueue) \in readers')]_vars
    /\ C19_ReaderLeadsToTranscribing
    /\ C19_StageSettles

\* C20: when a transcription request fails the processing stage is error,
\* both buffers and the cursor are as they were before the request settled,
\* and the failure toast is raised.
C20_TranscriptionFailure ==
    last.op = "transcribeAudioReject" =>
        /\ processingStage = "error"
        /\ {"buffers", "cursor"} \subseteq last.same
        /\ last.toast = "Transcription Failed"

\* C20 witness: a request failed while the transcription box held text.
C20_Witness ==
    /\ last.op = "transcribeAudioReject"
    /\ transcription # << >>

\* C21: handleFormatText called with an empty transcription buffer issues no
\* request and changes nothing (stage and enhanced buffer included), and a
\* formatting request is never dispatched from a stage of transcribing or
\* formatting.
C21_FormatGuard ==
    /\ last.op = "handleFormatText: empty" =>
           (last.same = FrameParts /\ last.delta = 0)
    /\ last.op = "handleFormatText" => last.stage \notin {"transcribing", "formatting"}

\* C21 witness: Format called on an empty transcription box while the
\* enhanced box holds an earlier result.
C21_Witness ==
    /\ last.op = "handleFormatText: empty"
    /\ formattedText # << >>

\* C22: when a formatting request succeeds the enhanced buffer is exactly the
\* returned text, whatever it held before, the stage is success, and the
\* transcription buffer and its cursor are as they were.
C22_FormattingSuccess ==
    last.op = "formatTextResolve" =>
        /\ formattedText = hist.returned
        /\ processingStage = "success"
        /\ {"transcription", "cursor"} \subseteq last.same

\* C22 witness: an empty answer replaced what the enhanced box held.
C22_Witness ==
    /\ last.op = "formatTextResolve"
    /\ hist.returned = << >>
    /\ "buffers" \notin last.same

\* C23: when a formatting request fails the stage is error and both buffers
\* and the cursor are as they were.
C23_FormattingFailure ==
    last.op = "formatTextReject" =>
        /\ processingStage = "error"
        /\ {"buffers", "cursor"} \subseteq last.same

\* C23 witness: a formatting request failed while the enhanced box held an
\* earlier result.
C23_Witness ==
    /\ last.op = "formatTextReject"
    /\ formattedText # << >>
    /\ transcription # << >>

\* C24: Format pressed on a non-empty buffer sets the stage to formatting and
\* issues exactly one request; every request in flight carries the buffer,
\* style and language of the moment it was dispatched, whatever was changed
\* since.
C24_RequestIsSnapshot ==
    /\ last.op = "handleFormatText" =>
           (processingStage = "formatting" /\ last.delta = 1)
    /\ Len(formatting) = Len(hist.dispatched)
    /\ \A i \in DOMAIN formatting : formatting[i] = hist.dispatched[i]

\* C24 witness: a request in flight while buffer, style and language have
\* all been changed since it was dispatched.
C24_Witness ==
    \E i \in DOMAIN formatting :
        /\ formatting[i].text # transcription
        /\ formatting[i].style # selectedStyle
        /\ formatting[i].language # selectedLanguage

\* C25: the language hint of a transcription request is the language that
\* was selected when the start of its recording was invoked.
C25_HintIsLanguageAtStart ==
    \A r \in transcribing : languageHint(r) = hist.recLanguage[r]

\* C25 witness: a request in flight whose hint is no longer the selected
\* language.
C25_Witness ==
    \E r \in transcribing : /\ languageHint(r) = hist.recLanguage[r]
                            /\ languageHint(r) # selectedLanguage

\* C26: while the recording state is recording or paused, no step changes the
\* selected language.
C26_LanguageFixedWhileRecording ==
    [][isRecording => selectedLanguage' = selectedLanguage]_vars

\* C27: a merge splices the result in at the position most recently recorded
\* when the result is applied, also when the position was recorded after the
\* request had been issued.
C27_MergeUsesLatestCursor ==
    hist.applied.rec # 0 =>
        hist.applied.newText = newText(hist.applied.prev, hist.applied.recorded.start,
                                       hist.applied.recorded.end, hist.applied.result)

\* C27 witness: the editor handlers recorded a position while the request
\* was in flight, and the merge at the position of the request would have
\* given another text.
C27_Witness ==
    /\ hist.applied.rec # 0
    /\ hist.applied.touched
    /\ hist.applied.atIssue # hist.applied.recorded
    /\ hist.applied.newText # newText(hist.applied.prev, hist.applied.atIssue.start,
                                      hist.applied.atIssue.end, hist.applied.result)

\* The steps in which an operation fails.
FailureSteps == {"getUserMediaReject", "getUserMediaResolveThrows",
                 "transcribeAudioReject", "formatTextReject"}

\* C28: a failure leaves one pending operation fewer and starts none; a new
\* acquisition or request is started only by Record, by Format, or by the
\* stop callback handing on the payload of a stopped recording, one at a time.
C28_NoAutomaticRetry ==
    /\ last.op \in FailureSteps => last.delta = -1
    /\ last.delta > 0 =>
           /\ last.delta = 1
           /\ last.op \in {"handleStartRecording", "handleFormatText", "onstop: payload"}

\* C28 witness: a transcription request failed and nothing is pending.
C28_Witness ==
    /\ last.op = "transcribeAudioReject"
    /\ Pending = 0
    /\ processingStage = "error"

\* C29: pause from recording gives paused and resume from paused gives
\* recording; either keeps the device acquired and leaves the chunk list,
\* the stage, both buffers and the cursor as they were; and no chunk is
\* appended while the state stays paused.
C29_PauseResume ==
    /\ (last.op = "handlePauseRecording" /\ last.from = "recording") =>
           /\ recordingState = "paused"
           /\ mediaRecorderRef # 0 /\ recorders[mediaRecorderRef].tracks
           /\ {"processingStage", "buffers", "cursor", "chunks"} \subseteq last.same
    /\ (last.op = "handleResumeRecording" /\ last.from = "paused") =>
           /\ recordingState = "recording"
           /\ mediaRecorderRef # 0 /\ recorders[mediaRecorderRef].tracks
           /\ {"processingStage", "buffers", "cursor", "chunks"} \subseteq last.same
    /\ (last.from = "paused" /\ recordingState = "paused") => "chunks" \in last.same

\* The steps of start, stop and cancel: the handlers, the continuation of
\* start after the device answered, and the recorder's stop callback.
RecordingSteps == {"handleStartRecording", "getUserMediaResolve", "getUserMediaReject",
                   "getUserMediaResolveThrows", "handleStopRecording",
                   "handleCancelRecording", "onstop: cancelled", "onstop: empty",
                   "onstop: payload"}

\* C30: start, stop and cancel leave the transcription buffer, the enhanced
\* buffer and the tracked cursor as they were.
C30_RecordingKeepsText ==
    last.op \in RecordingSteps => {"buffers", "cursor"} \subseteq last.same

\* C30 witness: a recording cancelled while the transcription box holds
\* text and the cursor is behind it.
C30_Witness ==
    /\ last.op = "handleCancelRecording"
    /\ transcription # << >>
    /\ cursorRef.start > 0

\* C31: the payload a stop callback finalizes holds exactly the one chunk its
\* own recorder delivered, and while the current recorder is still active the
\* chunk list holds no chunk of another recorder.
C31_PayloadIsOwnChunks ==
    /\ last.op = "onstop: payload" =>
           /\ Len(audioChunksRef) = 1
           /\ \A i \in DOMAIN audioChunksRef :
                  audioChunksRef[i].rec = audioChunksRef[Len(audioChunksRef)].rec
    /\ (mediaRecorderRef # 0 /\ recorders[mediaRecorderRef].state # "inactive") =>
           \A i \in DOMAIN audioChunksRef : audioChunksRef[i].rec = mediaRecorderRef

\* C32: when the recording state is idle or stopped and no acquisition is
\* pending, no device is held and no recorder is active.
C32_NothingHeldWhenIdle ==
    (recordingState \in {"idle", "stopped"} /\ acquiring = << >>) =>
        /\ LiveDevices = {}
        /\ \A r \in Recs : recorders[r].state = "inactive"

\* C33: while a transcription request is in flight the stage is transcribing,
\* and while a formatting request is in flight the stage is formatting.
C33_StageFollowsRequests ==
    /\ transcribing # {} => processingStage = "transcribing"
    /\ formatting # << >> => processingStage = "formatting"

\* C34: right after Reset pressed during a recording the page is idle,
\* empty and at its defaults with the device released; and the recording
\* that was running never has a request issued nor a result merged.
C34_ResetEndsRecording ==
    /\ (last.op = "resetState" /\ last.from \in {"recording", "paused"}) =>
           /\ recordingState = "idle" /\ processingStage = "idle"
           /\ transcription = << >> /\ formattedText = << >>
           /\ selectedStyle = DEFAULT_FORMATTING_STYLE
           /\ selectedLanguage = DEFAULT_LANGUAGE
           /\ LiveDevices = {}
    /\ \A r \in hist.resetWhile : Requests(r) = 0 /\ r \notin hist.merged

\* The last step of StyleSelect and the last step of FormattingRing.
lastSelect == hist.select
lastRing == hist.ring
\* The user activated a card: a click, or Enter or Space on it.
Activated == lastSelect.op \in {"onCardClick", "onCardKeyDown"} /\ lastSelect.activated

\* C35: while StyleSelect is disabled no panel is open, and a click or an
\* Enter or Space on a card calls onChange for nothing and opens nothing.
C35_DisabledIsInert ==
    /\ styleSelect.disabled => OpenPanels = {}
    /\ (Activated /\ lastSelect.before.disabled) =>
           /\ lastSelect.called = << >>
           /\ styleSelect.openId = lastSelect.before.openId
           /\ OpenPanels = {}

\* C35 witness: a card other than the selected one was activated while the
\* component was disabled.
C35_Witness ==
    /\ Activated
    /\ lastSelect.before.disabled
    /\ hasValid(lastSelect.before.value)
    /\ lastSelect.opt # lastSelect.before.value

\* C36: in the enabled StyleSelect at most one panel is open; activating the
\* open card closes it without a call of onChange, and it stays closed while
\* no card is activated and the selection stays; activating a closed card
\* opens it and calls onChange exactly when the card was not the selected one.
C36_OneOpenPanel ==
    /\ Cardinality(OpenPanels) <= 1
    /\ (Activated /\ ~lastSelect.before.disabled
            /\ lastSelect.before.openId = lastSelect.opt) =>
           /\ lastSelect.called = << >>
           /\ styleSelect.value = lastSelect.before.value
           /\ OpenPanels = {}
    /\ (lastSelect.op # "init" /\ lastSelect.collapsed # "null") =>
           styleSelect.openId # lastSelect.collapsed
    /\ (Activated /\ ~lastSelect.before.disabled
            /\ lastSelect.before.openId # lastSelect.opt) =>
           /\ styleSelect.openId = lastSelect.opt
           /\ lastSelect.called = IF lastSelect.before.value = lastSelect.opt
                                  THEN << >> ELSE <<lastSelect.opt>>

\* C36 witness: the selected card was collapsed by the user, and a step that
\* is no activation and no change of the selection has followed.
C36_Witness ==
    /\ lastSelect.op = "applied"
    /\ lastSelect.collapsed # "null"
    /\ lastSelect.collapsed = styleSelect.value

\* C37: when StyleSelect goes from disabled to enabled with a value that is
\* one of the options, onChange is not called and the panel of that option is
\* open; with a missing or foreign value onChange is called with the first
\* option, and when the parent has applied it the first panel is open.
C37_EnablingSelects ==
    /\ (lastSelect.op = "props" /\ lastSelect.before.disabled /\ ~styleSelect.disabled) =>
           IF hasValid(styleSelect.value)
           THEN /\ lastSelect.called = << >>
                /\ OpenPanels = {i \in DOMAIN StyleOptions : StyleOptions[i] = styleSelect.value}
                /\ OpenPanels # {}
           ELSE lastSelect.called = <<StyleOptions[1]>>
    /\ (lastSelect.op = "applied" /\ lastSelect.afterDefault) =>
           /\ styleSelect.value = StyleOptions[1]
           /\ OpenPanels = {1}

\* C37 witness: the component was enabled with a value that is no option,
\* and the parent has applied the default.
C37_Witness ==
    /\ lastSelect.op = "applied"
    /\ lastSelect.afterDefault
    /\ lastSelect.before.value = "Other"

\* C38: a press on the ring calls onConfirm only with the value of one of
\* the current options, and never while the ring is disabled.
C38_ConfirmsOptionsOnly ==
    lastRing.op = "onPress" =>
        /\ \A i \in DOMAIN formattingRing.confirmed :
               formattingRing.confirmed[i] \in Range(lastRing.before.options)
        /\ lastRing.before.disabled => formattingRing.confirmed = << >>

\* C38 witness: the ring reported an id that is an option no longer, while
\* the ring was enabled.
C38_Witness ==
    /\ lastRing.op = "onPress"
    /\ ~lastRing.before.disabled
    /\ lastRing.iconId = "Professional Email"
    /\ lastRing.iconId \notin Range(lastRing.before.options)

====
